---- MODULE Spec2Model ----
(***************************************************************************)
(* Model of the S&P 500 data pipeline (src/sp500_pipeline.py) and of the   *)
(* SMA-crossover backtest of the dashboard (src/dashboard.py).             *)
(*                                                                         *)
(* A pandas Series is a sequence of records [date, val] (index label and   *)
(* value).  Floating-point prices and averages are exact rationals <<n,d>> *)
(* with d > 0, kept in lowest terms; NaN is <<0, 0>>.                       *)
(* The calls into the vectorbt library (MA.run, ma_crossed_above,          *)
(* ma_crossed_below, Portfolio.from_signals, Portfolio.stats) are modelled *)
(* by the library's behaviour under the arguments the dashboard passes.    *)
(***************************************************************************)
EXTENDS Integers, Sequences, FiniteSets, TLC

\* ------------------------------------------------------------- bounds
MaxLen == 5
MaxPrice == 3
MaxWindow == 3
MaxBars == 3
MaxDay == 3
MaxRows == 2
NumRuns == 2

\* ------------------------------------------------- program constants
init_cash == 100000
limit == 100

\* a missing argument: a date argument is <<d>> when given
None == <<>>
\* the float NaN, beside the rationals <<n, d>> with d > 0
NaN == <<0, 0>>

VARIABLES
  close,          \* full close-price Series handed to the backtest
  short_window, long_window, start_date, end_date,   \* backtest arguments
  entries, exits, \* full-history signal Series
  close_slice, entries_slice, exits_slice,           \* sliced Series
  pc,             \* position of the dashboard's Run Analysis handler
  i,              \* number of dates of the slice already replayed
  position, cash, quantity, entry_idx, entry_price,  \* simulator state
  trades,         \* closed trade records
  value,          \* equity curve, pf.value()
  stats,          \* pf.stats() or None
  shown,          \* what the dashboard rendered
  table_exists,   \* whether the table sp500_prices exists in the database
  table,          \* its rows, in insertion order
  csv,            \* the rows of the exported snapshot sp500_latest.csv
  run             \* per pipeline invocation: stage reached and local data

vars == <<close, short_window, long_window, start_date, end_date, entries,
          exits, close_slice, entries_slice, exits_slice, pc, i, position,
          cash, quantity, entry_idx, entry_price, trades, value, stats, shown,
          table_exists, table, csv, run>>

\* ---------------------------------------------------------- rationals
RECURSIVE GCD(_, _)
GCD(a, b) == IF b = 0 THEN a ELSE GCD(b, a % b)

Abs(n) == IF n < 0 THEN -n ELSE n

Rat(n, d) == LET g == GCD(Abs(n), d) IN <<n \div g, d \div g>>

RInt(n) == <<n, 1>>
\* common factors are cancelled before multiplying, to keep the products of
\* the scenario's prices inside TLC's integers
RMul(a, b) ==
  LET g1 == GCD(Abs(a[1]), b[2])
      g2 == GCD(Abs(b[1]), a[2])
  IN Rat((a[1] \div g1) * (b[1] \div g2), (a[2] \div g2) * (b[2] \div g1))
RDiv(a, b) == RMul(a, <<b[2], b[1]>>)
RSub(a, b) == Rat(a[1] * b[2] - b[1] * a[2], a[2] * b[2])
RAdd(a, b) == Rat(a[1] * b[2] + b[1] * a[2], a[2] * b[2])
RLt(a, b) == a[1] * b[2] < b[1] * a[2]
RGt(a, b) == RLt(b, a)

isna(v) == v[2] = 0

\* ------------------------------------------------------------- Series
Dates(s) == [k \in 1..Len(s) |-> s[k].date]
Vals(s) == [k \in 1..Len(s) |-> s[k].val]

\* date of the k-th trading day: calendar day 3 is no trading day, so that
\* a slice bound can name a day missing from the index
DateOf(k) == IF k <= 2 THEN k ELSE k + 1

CalendarDays == 0..(DateOf(MaxLen) + 1)

RECURSIVE SeqsUpTo(_, _)
SeqsUpTo(S, n) ==
  IF n = 0 THEN {<<>>}
  ELSE LET shorter == SeqsUpTo(S, n - 1)
       IN shorter \cup {Append(s, x) : s \in {t \in shorter : Len(t) = n - 1}, x \in S}

\* the Series get_close_data returns, after close.ffill().dropna()
CloseSeries ==
  {[k \in 1..Len(ps) |-> [date |-> DateOf(k), val |-> RInt(ps[k])]] :
     ps \in SeqsUpTo(1..MaxPrice, MaxLen)}

\* ------------------------------------------------- indicators (vbt.MA)
RECURSIVE SumClose(_, _, _)
SumClose(df, lo, hi) ==
  IF lo > hi THEN RInt(0) ELSE RAdd(df[lo].Close, SumClose(df, lo + 1, hi))

RECURSIVE SumVals(_, _, _)
SumVals(s, lo, hi) ==
  IF lo > hi THEN RInt(0) ELSE RAdd(s[lo].val, SumVals(s, lo + 1, hi))

MA_run_Partial(s, window) ==
  [k \in 1..Len(s) |->
     [date |-> s[k].date,
      val |-> IF k < window THEN RDiv(SumVals(s, 1, k), RInt(k))
              ELSE RDiv(SumVals(s, k - window + 1, k), RInt(window))]]

\* vbt.MA.run(close, window): simple rolling mean, min_periods = window
MA_run(s, window) ==
  [k \in 1..Len(s) |->
     [date |-> s[k].date,
      val |-> IF k < window THEN NaN
              ELSE RDiv(SumVals(s, k - window + 1, k), RInt(window))]]

\* ------------------------------------ signals (vbt crossed_above, wait=0)
\* The library's loop over the samples: was_below is set by a sample where
\* arr1 is strictly below arr2 and cleared only by a NaN; crossed_ago counts
\* the samples since arr1 went above.
RECURSIVE crossed_above_loop(_, _, _, _, _)
crossed_above_loop(arr1, arr2, k, was_below, crossed_ago) ==
  IF k > Len(arr1) THEN <<>>
  ELSE IF isna(arr1[k]) \/ isna(arr2[k])
    THEN <<FALSE>> \o crossed_above_loop(arr1, arr2, k + 1, FALSE, -1)
  ELSE IF RGt(arr1[k], arr2[k])
    THEN IF was_below
         THEN <<crossed_ago + 1 = 0>>
              \o crossed_above_loop(arr1, arr2, k + 1, was_below, crossed_ago + 1)
         ELSE <<FALSE>>
              \o crossed_above_loop(arr1, arr2, k + 1, was_below, crossed_ago)
  ELSE IF arr1[k] = arr2[k]
    THEN <<FALSE>> \o crossed_above_loop(arr1, arr2, k + 1, was_below, -1)
  ELSE <<FALSE>> \o crossed_above_loop(arr1, arr2, k + 1, TRUE, -1)

crossed_above(a, b) ==
  LET out == crossed_above_loop(Vals(a), Vals(b), 1, FALSE, -1)
  IN [k \in 1..Len(a) |-> [date |-> a[k].date, val |-> out[k]]]

ma_crossed_above(fast_ma, slow_ma) == crossed_above(fast_ma, slow_ma)

ma_crossed_below_Unswapped(fast_ma, slow_ma) == crossed_above(fast_ma, slow_ma)

\* crossed_below(a, b) is crossed_above(b, a) in the library
ma_crossed_below(fast_ma, slow_ma) == crossed_above(slow_ma, fast_ma)

\* ---------------------------------------------- slicing (Series.loc[a:b])
Loc_ExclusiveEnd(s, a, b) ==
  LET lo == Cardinality({k \in 1..Len(s) : s[k].date < a}) + 1
      hi == Cardinality({k \in 1..Len(s) : s[k].date < b})
  IN SubSeq(s, lo, hi)

\* label slice of a Series with a sorted index: both ends inclusive, the
\* labels need not be in the index
Loc(s, a, b) ==
  LET lo == Cardinality({k \in 1..Len(s) : s[k].date < a}) + 1
      hi == Cardinality({k \in 1..Len(s) : s[k].date <= b})
  IN SubSeq(s, lo, hi)

empty_Never(s) == FALSE

\* Series.empty
empty(s) == Len(s) = 0

\* steps 1 and 2 of sma_crossover_backtest
FastMA(c, sw) == MA_run(c, sw)
SlowMA(c, lw) == MA_run(c, lw)
Entries(c, sw, lw) == ma_crossed_above(FastMA(c, sw), SlowMA(c, lw))
Exits(c, sw, lw) == ma_crossed_below(FastMA(c, sw), SlowMA(c, lw))

Sliced(s, sd, ed) ==
  IF sd # None /\ ed # None THEN Loc(s, sd[1], ed[1]) ELSE s
\* --------------------------- simulator (vbt.Portfolio.from_signals)
\* The order a bar's signals resolve to under the call's defaults: long
\* only, no accumulation, entry and exit on one bar cancel each other
\* (upon_long_conflict = ignore).
resolve_signal_ExitWins(pos, is_entry, is_exit) ==
  IF is_exit /\ pos = "LONG" THEN "sell"
  ELSE IF is_entry /\ ~is_exit /\ pos = "FLAT" THEN "buy"
  ELSE "none"

resolve_signal_ExitOpens(pos, is_entry, is_exit) ==
  IF is_entry /\ is_exit THEN "none"
  ELSE IF is_entry /\ pos = "FLAT" THEN "buy"
  ELSE IF is_exit /\ pos = "LONG" THEN "sell"
  ELSE IF is_exit THEN "buy"
  ELSE "none"

resolve_signal(pos, is_entry, is_exit) ==
  IF is_entry /\ is_exit THEN "none"
  ELSE IF is_entry /\ pos = "FLAT" THEN "buy"
  ELSE IF is_exit /\ pos = "LONG" THEN "sell"
  ELSE "none"

BarValue_CashOnly(c, q, price) == c

\* portfolio value at a bar: cash plus the holding at that bar's close
BarValue(c, q, price) == RAdd(c, RMul(q, price))

\* a closed trade record; idx are positions in the simulated Series
Trade(ei, ep, xi, xp, size) ==
  [entry_idx |-> ei, entry_price |-> ep, exit_idx |-> xi, exit_price |-> xp,
   size |-> size, pnl |-> RMul(size, RSub(xp, ep))]

\* ------------------------------------------- statistics (pf.stats())
Winning(ts) == {k \in 1..Len(ts) : ts[k].pnl[1] > 0}

WinRate_ZeroWhenEmpty(ts) ==
  IF Len(ts) = 0 THEN RInt(0)
  ELSE Rat(100 * Cardinality({k \in 1..Len(ts) : ts[k].pnl[1] > 0}), Len(ts))

\* trades.win_rate() * 100 over the closed trades: 0 / 0 is NaN
WinRate(ts) ==
  IF Len(ts) = 0 THEN NaN
  ELSE Rat(100 * Cardinality(Winning(ts)), Len(ts))

TotalTrades_ClosedOnly(ts, pos) == Len(ts)

\* 'Total Trades' counts the trade records, the open one included
TotalTrades(ts, pos) == Len(ts) + (IF pos = "LONG" THEN 1 ELSE 0)

TotalReturn(v) ==
  RMul(RSub(RDiv(v[Len(v)], RInt(init_cash)), RInt(1)), RInt(100))

\* the entries of pf.stats() the dashboard branches on; the maximum drawdown
\* and the buy-and-hold benchmark are display-only and left out
NoStats ==
  [computed |-> FALSE, total_return |-> NaN, win_rate |-> NaN, trades |-> 0]

Stats(v, ts, pos) ==
  [computed |-> TRUE, total_return |-> TotalReturn(v),
   win_rate |-> WinRate(ts), trades |-> TotalTrades(ts, pos)]

\* ------------------------------------------------ dashboard rendering
NothingShown ==
  [kind |-> "nothing", col2 |-> "", win_rate |-> NaN, trades_executed |-> 0,
   final_strategy_val |-> NaN, warning |-> FALSE]

\* the second metric column: the win rate, or the state that stands for it
Col2(st) ==
  IF ~isna(st.win_rate) THEN "Win Rate"
  ELSE IF st.trades > 0 THEN "Holding"
  ELSE "No Trades"

Rendered(st, v) ==
  [kind |-> "results", col2 |-> Col2(st),
   win_rate |-> IF ~isna(st.win_rate) THEN st.win_rate ELSE NaN,
   trades_executed |-> st.trades,
   final_strategy_val |-> v[Len(v)],
   warning |-> Len(v) < 20]

ErrorShown(msg) == [NothingShown EXCEPT !.kind = msg]
\* ----------------------------------------- pipeline (sp500_pipeline.py)
Runs == 1..NumRuns

\* the rows yf.download may return: any dates in any order, repeated dates,
\* missing and negative prices
FetchedRow == [date : 1..MaxDay, Close : {NaN, RInt(-1), RInt(1)}]
Fetched == SeqsUpTo(FetchedRow, MaxRows)

\* df.dropna(subset=existing_cols)
dropna(df) == SelectSeq(df, LAMBDA r : ~isna(r.Close))

\* df.drop_duplicates(subset=["date"], keep="last")
drop_duplicates(df) ==
  LET keep == {k \in 1..Len(df) : \A m \in (k + 1)..Len(df) : df[m].date # df[k].date}
      F[k \in 0..Len(df)] ==
        IF k = 0 THEN <<>>
        ELSE IF k \in keep THEN Append(F[k - 1], df[k]) ELSE F[k - 1]
  IN F[Len(df)]

\* df.sort_values(by="date") of rows with distinct dates
RECURSIVE sort_values(_)
sort_values(df) ==
  IF Len(df) = 0 THEN <<>>
  ELSE LET k == CHOOSE m \in 1..Len(df) : \A n \in 1..Len(df) : df[m].date <= df[n].date
       IN <<df[k]>> \o sort_values(SubSeq(df, 1, k - 1) \o SubSeq(df, k + 1, Len(df)))

\* df[df[col] >= 0]
non_negative(df) == SelectSeq(df, LAMBDA r : r.Close[1] >= 0)

clean_data(df) == non_negative(sort_values(drop_duplicates(dropna(df))))

ma_windows == {20, 50, 100, 200}

\* df["Close"].rolling(window=w).mean() for each w, as columns MA_w
calculate_moving_averages(df) ==
  [k \in 1..Len(df) |->
     [date |-> df[k].date, Close |-> df[k].Close,
      MA |-> [w \in ma_windows |->
                IF k < w THEN NaN
                ELSE Rat(SumClose(df, k - w + 1, k)[1], SumClose(df, k - w + 1, k)[2] * w)]]]

\* SELECT MAX(date): None for NULL
MaxDate(rows) ==
  IF Len(rows) = 0 THEN None
  ELSE <<CHOOSE d \in {rows[k].date : k \in 1..Len(rows)} :
           \A k \in 1..Len(rows) : rows[k].date <= d>>

df_new_Inclusive(df, last_date) ==
  IF last_date # None THEN SelectSeq(df, LAMBDA r : r.date >= last_date[1]) ELSE df

\* the rows save_to_postgres writes, given the result of the MAX query
df_new(df, last_date) ==
  IF last_date # None THEN SelectSeq(df, LAMBDA r : r.date > last_date[1]) ELSE df

\* ORDER BY date DESC: rows of equal date come in an order the database picks
RECURSIVE DescOrders(_, _)
DescOrders(rows, idx) ==
  IF idx = {} THEN {<<>>}
  ELSE UNION {{<<rows[k]>> \o t : t \in DescOrders(rows, idx \ {k})} :
                k \in {m \in idx : \A n \in idx : rows[n].date <= rows[m].date}}

\* ... LIMIT n
Limit(rows, n) == SubSeq(rows, 1, IF Len(rows) < n THEN Len(rows) ELSE n)

NewRun == [pc |-> "ready", fetched |-> <<>>, df |-> <<>>, last_date |-> None, n_new |-> 0]

\* ------------------------------------------------------------ actions
SimVars == <<position, cash, quantity, entry_idx, entry_price, trades, value, i>>
ArgVars == <<short_window, long_window, start_date, end_date>>
SeriesVars == <<entries, exits, close_slice, entries_slice, exits_slice>>

SimIdle ==
  /\ i = 0
  /\ position = "FLAT"
  /\ cash = RInt(init_cash)
  /\ quantity = RInt(0)
  /\ entry_idx = 0
  /\ entry_price = NaN
  /\ trades = <<>>
  /\ value = <<>>

DashVars == <<close, ArgVars, SeriesVars, SimVars, pc, stats, shown>>
PipeVars == <<table_exists, table, csv, run>>

\* no pipeline invocation yet, on a database without the table
PipeIdle ==
  /\ table_exists = FALSE
  /\ table = <<>>
  /\ csv = <<>>
  /\ run = [r \in Runs |-> NewRun]

Init ==
  /\ PipeIdle
  /\ close \in CloseSeries
  /\ short_window = 0 /\ long_window = 0
  /\ start_date = None /\ end_date = None
  /\ entries = <<>> /\ exits = <<>>
  /\ close_slice = <<>> /\ entries_slice = <<>> /\ exits_slice = <<>>
  /\ pc = "idle"
  /\ SimIdle
  /\ stats = NoStats
  /\ shown = NothingShown

\* Run Analysis with no price data at all: st.error and st.stop()
RunAnalysisNoData ==
  /\ pc = "idle"
  /\ empty(close)
  /\ shown' = ErrorShown("No data available")
  /\ pc' = "stopped"
  /\ UNCHANGED <<close, ArgVars, SeriesVars, SimVars, stats, PipeVars>>

DateArgs ==
  {<<None, None>>} \cup {<<<<a>>, <<b>>>> : a \in CalendarDays, b \in CalendarDays}

\* sma_crossover_backtest up to the call of from_signals: indicators and
\* signals on the full history, then the slice, then the empty check
Backtest(sw, lw) ==
  /\ pc = "idle"
  /\ ~empty(close)
  /\ \E e \in {Entries(close, sw, lw)}, x \in {Exits(close, sw, lw)}, d \in DateArgs :
       /\ short_window' = sw /\ long_window' = lw
       /\ start_date' = d[1] /\ end_date' = d[2]
       /\ entries' = e
       /\ exits' = x
       /\ close_slice' = Sliced(close, d[1], d[2])
       /\ entries_slice' = Sliced(e, d[1], d[2])
       /\ exits_slice' = Sliced(x, d[1], d[2])
       /\ pc' = IF empty(close_slice') THEN "returned None" ELSE "simulate"
  /\ UNCHANGED <<close, SimVars, stats, shown, PipeVars>>

\* one bar of the replay inside from_signals, and that bar's value
FromSignalsStep ==
  /\ pc = "simulate"
  /\ i < Len(close_slice)
  /\ LET k == i + 1
         price == close_slice[k].val
         order == resolve_signal(position, entries_slice[k].val, exits_slice[k].val)
     IN /\ i' = k
        /\ CASE order = "buy" ->
                  /\ position' = "LONG"
                  /\ quantity' = RDiv(cash, price)
                  /\ cash' = RInt(0)
                  /\ entry_idx' = k
                  /\ entry_price' = price
                  /\ trades' = trades
             [] order = "sell" ->
                  /\ position' = "FLAT"
                  /\ cash' = RAdd(cash, RMul(quantity, price))
                  /\ quantity' = RInt(0)
                  /\ entry_idx' = 0
                  /\ entry_price' = NaN
                  /\ trades' = Append(trades,
                                      Trade(entry_idx, entry_price, k, price, quantity))
             [] OTHER ->
                  UNCHANGED <<position, cash, quantity, entry_idx, entry_price, trades>>
        /\ value' = Append(value, BarValue(cash', quantity', price))
  /\ UNCHANGED <<close, ArgVars, SeriesVars, pc, stats, shown, PipeVars>>

\* the caller's else branch: pf.stats() and the rendered metrics
ShowResults ==
  /\ pc = "simulate"
  /\ i = Len(close_slice)
  /\ stats' = Stats(value, trades, position)
  /\ shown' = Rendered(stats', value)
  /\ pc' = "done"
  /\ UNCHANGED <<close, ArgVars, SeriesVars, SimVars, PipeVars>>

\* the caller's branch for pf is None
ShowNoPeriodData ==
  /\ pc = "returned None"
  /\ shown' = ErrorShown("No data found for the selected period")
  /\ pc' = "done"
  /\ UNCHANGED <<close, ArgVars, SeriesVars, SimVars, stats, PipeVars>>

Windows == 1..MaxWindow

Next ==
  \/ RunAnalysisNoData
  \/ \E sw \in Windows, lw \in Windows : Backtest(sw, lw)
  \/ FromSignalsStep
  \/ ShowResults
  \/ ShowNoPeriodData

Spec == Init /\ [][Next]_vars
\* from_signals as a function of its three Series: any prices, any signals
SimInputs ==
  {[k \in 1..Len(ps) |->
      [c |-> [date |-> DateOf(k), val |-> RInt(ps[k][1])],
       e |-> [date |-> DateOf(k), val |-> ps[k][2]],
       x |-> [date |-> DateOf(k), val |-> ps[k][3]]]] :
     ps \in SeqsUpTo((1..MaxPrice) \X BOOLEAN \X BOOLEAN, MaxBars) \ {<<>>}}

InitSim ==
  /\ PipeIdle
  /\ \E inp \in SimInputs :
       /\ close_slice = [k \in 1..Len(inp) |-> inp[k].c]
       /\ entries_slice = [k \in 1..Len(inp) |-> inp[k].e]
       /\ exits_slice = [k \in 1..Len(inp) |-> inp[k].x]
  /\ close = close_slice /\ entries = entries_slice /\ exits = exits_slice
  /\ short_window = 0 /\ long_window = 0
  /\ start_date = None /\ end_date = None
  /\ pc = "simulate"
  /\ SimIdle
  /\ stats = NoStats
  /\ shown = NothingShown

NextSim == FromSignalsStep \/ ShowResults

SpecSim == InitSim /\ [][NextSim]_vars

\* the eight-day price series of the specification's worked scenario
ScenarioPrices == <<100, 102, 101, 105, 103, 108, 107, 112>>

ScenarioClose ==
  [k \in 1..Len(ScenarioPrices) |->
     [date |-> DateOf(k), val |-> RInt(ScenarioPrices[k])]]

\* the windows entered for that series: the scenario's 2 and 4 among them,
\* and window 1 (the price itself), under which the series does trade
ScenarioShort == {1, 2}
ScenarioLong == {2, 4}

\* the dashboard with the scenario's series loaded
InitScenario ==
  /\ PipeIdle
  /\ close = ScenarioClose
  /\ short_window = 0 /\ long_window = 0
  /\ start_date = None /\ end_date = None
  /\ entries = <<>> /\ exits = <<>>
  /\ close_slice = <<>> /\ entries_slice = <<>> /\ exits_slice = <<>>
  /\ pc = "idle"
  /\ SimIdle
  /\ stats = NoStats
  /\ shown = NothingShown

NextScenario ==
  \/ \E sw \in ScenarioShort, lw \in ScenarioLong : Backtest(sw, lw)
  \/ FromSignalsStep
  \/ ShowResults
  \/ ShowNoPeriodData

SpecScenario == InitScenario /\ [][NextScenario]_vars

\* ---------------------------------------------------- pipeline actions
DashIdle ==
  /\ close = <<>>
  /\ short_window = 0 /\ long_window = 0
  /\ start_date = None /\ end_date = None
  /\ entries = <<>> /\ exits = <<>>
  /\ close_slice = <<>> /\ entries_slice = <<>> /\ exits_slice = <<>>
  /\ pc = "idle"
  /\ SimIdle
  /\ stats = NoStats
  /\ shown = NothingShown

InitPipe == DashIdle /\ PipeIdle

Resting(r) == run[r].pc \in {"ready", "finished", "failed"}

\* Task 1 with rows from the source
Fetch(r, rows) ==
  /\ run[r].pc = "ready"
  /\ Len(rows) > 0
  /\ run' = [run EXCEPT ![r].pc = "fetched", ![r].fetched = rows, ![r].df = rows]
  /\ UNCHANGED <<DashVars, table_exists, table, csv>>

FetchEmpty_Continues(r) ==
  /\ run[r].pc = "ready"
  /\ run' = [run EXCEPT ![r].pc = "fetched"]
  /\ UNCHANGED <<DashVars, table_exists, table, csv>>

\* Task 1 when the source returns nothing: ValueError ends the flow
FetchEmpty(r) ==
  /\ run[r].pc = "ready"
  /\ run' = [run EXCEPT ![r].pc = "failed"]
  /\ UNCHANGED <<DashVars, table_exists, table, csv>>

\* Task 2
Clean(r) ==
  /\ run[r].pc = "fetched"
  /\ run' = [run EXCEPT ![r].pc = "cleaned", ![r].df = clean_data(run[r].df)]
  /\ UNCHANGED <<DashVars, table_exists, table, csv>>

\* Task 3
MovingAverages(r) ==
  /\ run[r].pc = "cleaned"
  /\ run' = [run EXCEPT ![r].pc = "averaged",
                        ![r].df = calculate_moving_averages(run[r].df)]
  /\ UNCHANGED <<DashVars, table_exists, table, csv>>

\* Task 4, the MAX(date) query; a missing table is absorbed as no last date
SaveReadMax(r) ==
  /\ run[r].pc = "averaged"
  /\ run' = [run EXCEPT ![r].pc = "read",
                        ![r].last_date = IF table_exists THEN MaxDate(table) ELSE None]
  /\ UNCHANGED <<DashVars, table_exists, table, csv>>

\* Task 4, the MAX(date) query failing for another reason: re-raised
SaveQueryError(r) ==
  /\ run[r].pc = "averaged"
  /\ run' = [run EXCEPT ![r].pc = "failed"]
  /\ UNCHANGED <<DashVars, table_exists, table, csv>>

\* Task 4, the append of the new rows (to_sql creates a missing table)
SaveAppend(r) ==
  /\ run[r].pc = "read"
  /\ LET new == df_new(run[r].df, run[r].last_date)
     IN /\ run' = [run EXCEPT ![r].pc = "saved", ![r].n_new = Len(new)]
        /\ IF ~empty(new)
             THEN table' = table \o new /\ table_exists' = TRUE
             ELSE UNCHANGED <<table, table_exists>>
  /\ UNCHANGED <<DashVars, csv>>

\* Task 5; reading a table that does not exist raises and ends the flow
Export(r) ==
  /\ run[r].pc = "saved"
  /\ IF table_exists
       THEN /\ \E rows \in DescOrders(table, 1..Len(table)) : csv' = Limit(rows, limit)
            /\ run' = [run EXCEPT ![r].pc = "finished"]
       ELSE /\ run' = [run EXCEPT ![r].pc = "failed"]
            /\ csv' = csv
  /\ UNCHANGED <<DashVars, table_exists, table>>

Stage(r) ==
  \/ Clean(r)
  \/ MovingAverages(r)
  \/ SaveReadMax(r)
  \/ SaveQueryError(r)
  \/ SaveAppend(r)
  \/ Export(r)

\* invocations one after the other: a run starts when no other is under way
NextSeq ==
  \E r \in Runs :
    \/ (\A q \in Runs \ {r} : Resting(q)) /\ (\E rows \in Fetched : Fetch(r, rows))
    \/ (\A q \in Runs \ {r} : Resting(q)) /\ FetchEmpty(r)
    \/ Stage(r)

SpecSeq == InitPipe /\ [][NextSeq]_vars

\* invocations of the schedule and of the command line at the same time
NextConc ==
  \E r \in Runs :
    \/ \E rows \in Fetched : Fetch(r, rows)
    \/ FetchEmpty(r)
    \/ Stage(r)

SpecConc == InitPipe /\ [][NextConc]_vars

\* ------------------------------------------------------------- claims
Replayed == pc \in {"simulate", "done"}
Sliced_ == pc \in {"returned None", "simulate", "done"}
\* right after the backtest step; no later step writes the Series
JustSliced == pc \in {"returned None", "simulate"} /\ i = 0

\* C1: during the replay the position changes only FLAT -> LONG on an entry
\* (all cash becomes units at that bar's price) and LONG -> FLAT on an exit
\* (all units become cash at that bar's price); any other bar leaves state,
\* cash and quantity unchanged, and a holding exists exactly when LONG.
C1_ReplayTransitions ==
  [][(pc = "simulate" /\ i' = i + 1) =>
       LET e == entries_slice[i'].val
           x == exits_slice[i'].val
           price == close_slice[i'].val
       IN /\ (position = "FLAT" /\ e) =>
               /\ position' = "LONG"
               /\ quantity' = RDiv(cash, price)
               /\ cash' = RInt(0)
          /\ (position = "LONG" /\ x) =>
               /\ position' = "FLAT"
               /\ cash' = RMul(quantity, price)
               /\ quantity' = RInt(0)
          /\ ~((position = "FLAT" /\ e) \/ (position = "LONG" /\ x)) =>
               UNCHANGED <<position, cash, quantity>>
          /\ position' \in {"FLAT", "LONG"}
          /\ (position' = "LONG") <=> (quantity' # RInt(0))]_vars

\* an entry signal met a position that an earlier entry of the slice opened
C1_Witness ==
  /\ pc = "simulate"
  /\ i >= 2
  /\ position = "LONG"
  /\ trades = <<>>
  /\ entries_slice[i].val
  /\ \E j \in 1..(i - 1) : entries_slice[j].val

\* C2: one equity point per replayed date, recorded after that date's
\* transition: the cash when FLAT, quantity * price when LONG; at the end
\* the curve is as long as the sliced price series.
C2_EquityCurve ==
  Replayed =>
    /\ Len(value) = i
    /\ i >= 1 =>
         value[i] = IF position = "FLAT" THEN cash
                    ELSE RMul(quantity, close_slice[i].val)
    /\ pc = "done" => Len(value) = Len(close_slice)

C2_Witness ==
  /\ pc = "done"
  /\ Len(value) = Len(close_slice)
  /\ Len(value) >= 3
  /\ position = "LONG"
  /\ Len(trades) >= 1
  /\ value[Len(value)] # value[1]
\* C3 as stated: with a position open after the last date, the reported
\* trade count is the number of closed trades and final equity is the
\* position marked to the last close.
C3_CountExcludesOpen ==
  (pc = "done" /\ stats.computed /\ position = "LONG") =>
    /\ stats.trades = Len(trades)
    /\ shown.trades_executed = Len(trades)
    /\ shown.final_strategy_val = RMul(quantity, close_slice[Len(close_slice)].val)

\* C3 amended: the open position closes no trade (every closed trade ended
\* before it began) and stays out of the win rate, but the reported trade
\* count includes it: closed trades plus one; final equity is the position
\* marked to the last close.
C3_CountIncludesOpen ==
  (pc = "done" /\ stats.computed /\ position = "LONG") =>
    /\ \A k \in 1..Len(trades) : trades[k].exit_idx <= entry_idx
    /\ isna(stats.win_rate) <=> (Len(trades) = 0)
    /\ stats.trades = Len(trades) + 1
    /\ shown.trades_executed = Len(trades) + 1
    /\ shown.final_strategy_val = RMul(quantity, close_slice[Len(close_slice)].val)

C3_Witness ==
  /\ pc = "done"
  /\ position = "LONG"
  /\ Len(trades) = 1
  /\ shown.trades_executed = 2
  /\ shown.final_strategy_val # RInt(init_cash)

\* C4: the win rate is undefined exactly when no trade is closed, and then
\* is not 0; otherwise it lies in [0, 100] and is the share of closed trades
\* that sold above their purchase price; the dashboard shows the undefined
\* case as "No Trades" or "Holding" and not as a percentage.
C4_WinRate ==
  (pc = "done" /\ stats.computed) =>
    LET n == Len(trades)
        won == Cardinality({k \in 1..n :
                  RGt(trades[k].exit_price, trades[k].entry_price)})
        wr == stats.win_rate
    IN /\ isna(wr) <=> (n = 0)
       /\ n = 0 => wr # RInt(0)
       /\ n > 0 => /\ wr[1] * n = 100 * won * wr[2]
                   /\ 0 <= wr[1] /\ wr[1] <= 100 * wr[2]
                   /\ shown.col2 = "Win Rate"
                   /\ shown.win_rate = wr
       /\ n = 0 => /\ shown.col2 = (IF position = "LONG" THEN "Holding"
                                    ELSE "No Trades")
                   /\ isna(shown.win_rate)

C4_Witness ==
  /\ pc = "done"
  /\ stats.computed
  /\ Len(trades) = 0
  /\ position = "LONG"
  /\ isna(stats.win_rate)
  /\ shown.col2 = "Holding"

InWindow(d) ==
  start_date = None \/ end_date = None \/ (start_date[1] <= d /\ d <= end_date[1])

EmptyWindow == \A k \in 1..Len(close) : ~InWindow(close[k].date)

\* C5: when no date of the history lies in the window the backtest returns
\* None without replaying a bar, no statistic is computed and the caller
\* shows the no-data message; statistics exist only for a non-empty slice,
\* and a replayed run that closed no trade shows results instead.
C5_EmptySlice ==
  Sliced_ =>
    /\ EmptyWindow <=> (pc = "returned None" \/
                        shown.kind = "No data found for the selected period")
    /\ EmptyWindow => (i = 0 /\ value = <<>> /\ stats = NoStats
                       /\ position = "FLAT" /\ cash = RInt(init_cash))
    /\ stats.computed => (~EmptyWindow /\ Len(value) >= 1)
    /\ (pc = "done" /\ ~EmptyWindow) => (stats.computed /\ shown.kind = "results")

\* the window starts after the last date of the history
C5_Witness ==
  /\ pc = "done"
  /\ start_date # None
  /\ start_date[1] > close[Len(close)].date
  /\ start_date[1] <= end_date[1]
  /\ shown.kind = "No data found for the selected period"
  /\ ~stats.computed
Defined(ma, k) == ~isna(ma[k].val)

\* the crossing rule of the specification at index k: a above b at k, not
\* above at k - 1, both defined at both indices
CrossesOver(a, b, k) ==
  /\ k > 1
  /\ Defined(a, k - 1) /\ Defined(b, k - 1) /\ Defined(a, k) /\ Defined(b, k)
  /\ ~RGt(a[k - 1].val, b[k - 1].val)
  /\ RGt(a[k].val, b[k].val)

\* a was strictly below b at an index before k since which both are defined
WasBelow(a, b, k) ==
  \E j \in 1..(k - 1) :
    /\ \A m \in j..k : Defined(a, m) /\ Defined(b, m)
    /\ RLt(a[j].val, b[j].val)

\* C8 as stated: entry[k] iff fast crosses over slow at k, exit[k] iff
\* slow crosses over fast at k, and never both.
C8_CrossingRule ==
  JustSliced =>
    \A f \in {FastMA(close, short_window)}, sl \in {SlowMA(close, long_window)} :
       \A k \in 1..Len(close) :
         /\ entries[k].val <=> CrossesOver(f, sl, k)
         /\ exits[k].val <=> CrossesOver(sl, f, k)
         /\ ~(entries[k].val /\ exits[k].val)

\* C8 amended: entry[k] iff fast crosses over slow at k and fast was
\* strictly below slow at some earlier index since which both indicators
\* are defined; exit[k] symmetric; a signal is false where an indicator is
\* undefined at k or k - 1; entry[k] and exit[k] are never both true.
C8_CrossingAfterOpposite ==
  JustSliced =>
    \A f \in {FastMA(close, short_window)}, sl \in {SlowMA(close, long_window)} :
       \A k \in 1..Len(close) :
         /\ entries[k].val <=> (CrossesOver(f, sl, k) /\ WasBelow(f, sl, k))
         /\ exits[k].val <=> (CrossesOver(sl, f, k) /\ WasBelow(sl, f, k))
         /\ ~(entries[k].val /\ exits[k].val)
         /\ (k = 1 \/ ~Defined(f, k) \/ ~Defined(sl, k) \/ ~Defined(f, k - 1)
             \/ ~Defined(sl, k - 1)) => (~entries[k].val /\ ~exits[k].val)

\* a tie at k - 1 followed by fast above slow at k is flagged as an entry
C8_Witness ==
  /\ Sliced_
  /\ \E f \in {FastMA(close, short_window)}, sl \in {SlowMA(close, long_window)} :
       \E k \in 2..Len(close) :
         /\ entries[k].val
         /\ Defined(sl, k - 1)
         /\ f[k - 1].val = sl[k - 1].val

\* C9: the signals are computed over the entire history (one value per
\* date of the history) before slicing, and the sliced price, entry and
\* exit Series hold exactly the rows of the full-history Series whose date
\* lies in the inclusive window, in their order and with the full-history
\* values, and share one index.
C9_SliceOfFullHistory ==
  Sliced_ =>
    LET Keep(r) == InWindow(r.date)
    IN /\ Dates(entries) = Dates(close)
       /\ Dates(exits) = Dates(close)
       /\ close_slice = SelectSeq(close, Keep)
       /\ entries_slice = SelectSeq(entries, Keep)
       /\ exits_slice = SelectSeq(exits, Keep)
       /\ Dates(entries_slice) = Dates(close_slice)
       /\ Dates(exits_slice) = Dates(close_slice)

\* the first date of the window carries a signal that rests on prices before
\* the window, and the window ends before the history does
C9_Witness ==
  /\ pc = "simulate"
  /\ start_date # None
  /\ Len(close) >= 3
  /\ start_date[1] > close[2].date
  /\ end_date[1] < close[Len(close)].date
  /\ Len(close_slice) >= 2
  /\ entries_slice[1].val
UniqueDates(rows) ==
  \A a \in 1..Len(rows), b \in 1..Len(rows) : a # b => rows[a].date # rows[b].date

SaveStep(r) == run[r].pc = "read" /\ run'[r].pc = "saved"

\* C6: over sequential runs the table holds each date at most once; the
\* table changes only in a save step, which appends exactly the rows of the
\* run's input dated after every stored row and leaves the stored rows as
\* they are; the save step of a run fed the data of an earlier completed
\* run appends nothing.
C6_AppendOnlyNewDates ==
  /\ [](UniqueDates(table))
  /\ [][/\ table' # table => \E r \in Runs : SaveStep(r)
        /\ \A r \in Runs :
             SaveStep(r) =>
               /\ table' = table \o SelectSeq(run[r].df,
                      LAMBDA row : \A k \in 1..Len(table) : table[k].date < row.date)
               /\ (\E q \in Runs \ {r} :
                     /\ run[q].pc \in {"saved", "finished"}
                     /\ run[q].fetched = run[r].fetched) => table' = table]_vars

\* a run appended some rows of its input and skipped the others
C6_Witness ==
  \E r \in Runs :
    /\ run[r].pc = "finished"
    /\ run[r].n_new > 0
    /\ run[r].n_new < Len(run[r].df)
    /\ Len(table) > run[r].n_new

\* C7: with invocations interleaved, the table never holds one date twice.
C7_NoDuplicateDates == UniqueDates(table)

C11_MissingTableRecovered ==
  [][\A r \in Runs :
       /\ (run[r].pc = "averaged" /\ ~table_exists /\ run'[r].pc # "failed") =>
            (run'[r].pc = "read" /\ run'[r].last_date = None)
       /\ (SaveStep(r) /\ ~table_exists) =>
            (table_exists' /\ table' = run[r].df)
       /\ (run[r].pc = "averaged" /\ run'[r].pc = "failed") =>
            UNCHANGED <<table, table_exists>>
       /\ run[r].pc = "failed" => run'[r] = run[r]]_vars

\* the parts of C11 apart from the creation of the table: absorbed lookup,
\* all rows written, other failures fatal without an append
C11_AbsorbedOrFatal ==
  [][\A r \in Runs :
       /\ (run[r].pc = "averaged" /\ ~table_exists /\ run'[r].pc # "failed") =>
            (run'[r].pc = "read" /\ run'[r].last_date = None)
       /\ (SaveStep(r) /\ ~table_exists) =>
            /\ table' = run[r].df
            /\ table_exists' <=> ~empty(run[r].df)
       /\ (run[r].pc = "averaged" /\ run'[r].pc = "failed") =>
            UNCHANGED <<table, table_exists>>
       /\ run[r].pc = "failed" => run'[r] = run[r]]_vars

\* a run saved on a database without the table and had no row to write
C11_NoTableAfterSave ==
  \E r \in Runs :
    /\ run[r].pc = "saved"
    /\ run[r].fetched # <<>>
    /\ run[r].df = <<>>
    /\ ~table_exists

\* position of a run in the flow: the stages in the order of run_pipeline
\* (the save stage is left through "read" to "saved")
Rank(p) ==
  CASE p = "ready" -> 0
    [] p = "fetched" -> 1
    [] p = "cleaned" -> 2
    [] p = "averaged" -> 3
    [] p = "read" -> 4
    [] p = "saved" -> 5
    [] p = "finished" -> 6
    [] p = "failed" -> 7

Moved(r) == run'[r] # run[r]

\* C12: a run goes through fetch, clean, moving averages, save, export in
\* that order, each at most once, every stage working on the result of the
\* one before; a fetch that returns no rows fails the run, after which the
\* run takes no step, so that it changes neither the table nor the exported
\* snapshot: these change only in the save or export stage of a run whose
\* fetch returned rows.
C12_StageOrder ==
  /\ [](\A r \in Runs :
          /\ run[r].pc \in {"fetched", "cleaned", "averaged", "read", "saved",
                            "finished"} => run[r].fetched # <<>>
          /\ run[r].pc = "fetched" => run[r].df = run[r].fetched
          /\ run[r].pc = "cleaned" => run[r].df = clean_data(run[r].fetched)
          /\ run[r].pc \in {"averaged", "read", "saved", "finished"} =>
               run[r].df = calculate_moving_averages(clean_data(run[r].fetched)))
  /\ [][\A r \in Runs :
          /\ Moved(r) =>
               /\ run[r].pc \notin {"finished", "failed"}
               /\ \/ Rank(run'[r].pc) = Rank(run[r].pc) + 1
                  \/ run'[r].pc = "failed" /\ run[r].pc \in {"ready", "averaged", "saved"}
          /\ (run[r].pc = "ready" /\ Moved(r) /\ run'[r].fetched = <<>>) =>
               /\ run'[r].pc = "failed"
               /\ UNCHANGED <<table_exists, table, csv>>
          /\ (Moved(r) /\ table' # table) =>
               (run[r].pc = "read" /\ run[r].fetched # <<>>)
          /\ (Moved(r) /\ csv' # csv) =>
               (run[r].pc = "saved" /\ run[r].fetched # <<>>)]_vars

\* a run failed in its fetch beside a table and a snapshot that the
\* other run wrote
C12_Witness ==
  \E r \in Runs, q \in Runs :
    /\ run[r].pc = "failed" /\ run[r].fetched = <<>>
    /\ run[q].pc = "finished"
    /\ table = run[q].df
    /\ table # <<>>
    /\ csv # <<>>

\* the scenario's run: windows 2 and 4 over the whole series
ScenarioRun ==
  /\ Sliced_
  /\ close = ScenarioClose
  /\ short_window = 2 /\ long_window = 4
  /\ start_date = None /\ end_date = None

\* the first index at which the crossing rule of the specification holds
FirstCrossover(a, b, k) ==
  /\ CrossesOver(a, b, k)
  /\ \A j \in 1..(k - 1) : ~CrossesOver(a, b, j)

\* C13 as stated: the scenario's run flags an entry at the first index at
\* which the crossing rule holds and ends with a single trade, bought at
\* that index's price, its exit price and the final equity being those of
\* the replay rules applied by hand.
C13_SingleTrade ==
  (ScenarioRun /\ pc = "done") =>
    \A f \in {FastMA(close, 2)}, sl \in {SlowMA(close, 4)} :
      \E k \in 1..Len(close) :
        /\ FirstCrossover(f, sl, k)
        /\ entries[k].val
        /\ stats.trades = 1
        /\ \/ /\ Len(trades) = 1
              /\ trades[1].entry_price = close[k].val
              /\ \E x \in (k + 1)..Len(close) :
                   /\ FirstCrossover(sl, f, x) \/ exits[x].val
                   /\ trades[1].exit_price = close[x].val
                   /\ shown.final_strategy_val =
                        RMul(RDiv(RInt(init_cash), close[k].val), close[x].val)
           \/ /\ Len(trades) = 0
              /\ entry_price = close[k].val
              /\ shown.final_strategy_val =
                   RMul(RDiv(RInt(init_cash), close[k].val), close[Len(close)].val)

\* C13 amended: in the scenario's run the fast average is undefined at the
\* first index and the slow one at the first three, with the hand-computed
\* values after that; the fast average is above the slow one from the first
\* index where both are available (the fourth day) to the end, so the
\* crossing rule holds at no index, no entry and no exit is flagged, the run
\* ends with no trade and no position, and every equity point, the final
\* one included, is the initial cash 100000.
C13_NoCrossover ==
  ScenarioRun =>
    \A f \in {FastMA(close, 2)}, sl \in {SlowMA(close, 4)} :
      /\ Vals(f) = <<NaN, RInt(101), Rat(203, 2), RInt(103), RInt(104),
                     Rat(211, 2), Rat(215, 2), Rat(219, 2)>>
      /\ Vals(sl) = <<NaN, NaN, NaN, RInt(102), Rat(411, 4), Rat(417, 4),
                      Rat(423, 4), Rat(215, 2)>>
      /\ \A k \in 1..Len(close) :
           /\ Defined(f, k) <=> k >= 2
           /\ Defined(sl, k) <=> k >= 4
           /\ k >= 4 => RGt(f[k].val, sl[k].val)
           /\ ~CrossesOver(f, sl, k) /\ ~CrossesOver(sl, f, k)
           /\ ~entries[k].val /\ ~exits[k].val
      /\ close_slice = close
      /\ position = "FLAT" /\ trades = <<>>
      /\ \A k \in 1..Len(value) : value[k] = RInt(init_cash)
      /\ pc = "done" =>
           /\ Len(value) = Len(ScenarioPrices)
           /\ stats.trades = 0
           /\ isna(stats.win_rate)
           /\ stats.total_return = RInt(0)
           /\ shown.col2 = "No Trades"
           /\ shown.trades_executed = 0
           /\ shown.final_strategy_val = RInt(init_cash)

\* the scenario's run replayed all eight days and showed its results
C13_Witness ==
  /\ ScenarioRun
  /\ pc = "done"
  /\ i = Len(ScenarioPrices)
  /\ shown.kind = "results"
  /\ shown.final_strategy_val = RInt(init_cash)

\* with window 1 as the fast average the same series trades
C13_SeriesTrades ==
  /\ close = ScenarioClose
  /\ pc = "done"
  /\ Len(trades) >= 2
  /\ position = "LONG"
====
